---- MODULE Spec2Model ----
(***************************************************************************)
(* Entity-registry resolver of NukeScan (src/nukescan_pipeline.py):        *)
(* resolve_name, prompt_user and the globals they read.                    *)
(*                                                                         *)
(* Python strings are sequences of one-character strings, so that          *)
(* str.lower, str.strip and clean_text are computed character by           *)
(* character.  Similarity scores are integers in hundredths (0.85 = 85).   *)
(* A resolve_name call is split at its blocking input() / handler calls:   *)
(* the matcher runs in ResolveName, the yes/no confirmation is answered    *)
(* in ConfirmAnswer and the full disambiguation prompt in PromptConsole    *)
(* or PromptHandler.                                                       *)
(*                                                                         *)
(* Further sections follow run_pipeline from load_entities to              *)
(* save_entities, standardize_entry over a whole entry, the handler of     *)
(* src/pipeline_gui.py, and the standardized dictionary and its editor     *)
(* of src/entity_resolution_system.py.                                     *)
(***************************************************************************)
EXTENDS Integers, Sequences, FiniteSets, TLC

VARIABLES
    all_entities,     \* the registry list shared by reference across calls
    CONFIRM_MATCHES,  \* module global, set by run_pipeline
    prompt_handler,   \* module global _prompt_handler: "None", "handler"
                      \* (one that answers with a pair) or "gui"
                      \* (gui_prompt_handler of pipeline_gui.py)
    pc,               \* "idle", "confirm" (blocked in input() of line 129),
                      \* "prompt" (blocked inside prompt_user), "returned"
    name,             \* argument of the call in progress / last call
    entity_type,      \* argument of the call in progress / last call
    pre,              \* the registry as it was when the call started
    best,             \* the matcher's locals after the loop of lines 99-119
    ret,              \* <<"none">> before return, <<"value", s>> after it
    asked,            \* the confirmation question of line 129 was asked
    confirm,          \* the local `confirm` of line 129, <<"unset">> before
    prompted,         \* prompt_user was entered during the call
    answer,           \* what the human answered in prompt_user (for reading
                      \* the outcome): [kind, raw, value]
    file,             \* standard_entities.json on disk: [kind, doc, by]
    loaded,           \* outcome of the last load_entities call: <<"none">>,
                      \* <<"return", list>> or <<"raise", exception>>
    phase,            \* run_pipeline: "start" (before line 369), "loaded"
                      \* (load_entities returned), "run" (lines 370-455,
                      \* registry in memory), "crashed" (ended by an exception)
    run,              \* one call of run_pipeline as its caller sees it:
                      \* [mode, urls, records, saves, reported, error,
                      \* file0 (the registry file when the run began)]
    session,          \* the resolutions of the session so far: a function
                      \* from (name, type) to the result first returned
    entry,            \* standardize_entry: the entry it was given, its
                      \* position in it and the lists it has built
    std_dict,         \* entity_resolution_system.py: one standardized
                      \* dictionary of EntityResolver, key -> entry
    op                \* the last operation on std_dict, with its arguments
                      \* and the entries it was about

vars == <<all_entities, CONFIRM_MATCHES, prompt_handler, pc, name,
          entity_type, pre, best, ret, asked, confirm, prompted, answer,
          file, loaded, phase, run, session, entry, std_dict, op>>

\* the variables of the registry file and of run_pipeline's position
diskVars == <<file, loaded, phase>>

\* run_pipeline's caller, standardize_entry's lists and the entity editor
auxVars == <<run, session, entry, std_dict, op>>

-----------------------------------------------------------------------------
(* Bounds of the model *)

MaxEntities == 2
MaxVariants == 2
MaxRecords == 2
MaxList == 2

-----------------------------------------------------------------------------
(* Strings *)

Empty  == << >>
Ali    == <<"a", "l", "i">>
AliCap == <<"A", "l", "i">>
Aly    == <<"a", "l", "y">>
Al     == <<"a", "l">>
NoneS  == <<"n", "o", "n", "e">>
NoneCap == <<"N", "o", "n", "e">>
EmptyS == <<"e", "m", "p", "t", "y">>
Y      == <<"y">>
YesPad == <<" ", "Y", "e", "s">>
Yes    == <<"y", "e", "s">>
N      == <<"n">>
Qom    == <<"q", "o", "m">>
QomCap == <<"Q", "o", "m", ".">>
MohammadRezaei ==
    <<"M", "o", "h", "a", "m", "m", "a", "d", " ",
      "R", "e", "z", "a", "e", "i">>
MohammadrezaRezaei ==
    <<"M", "o", "h", "a", "m", "m", "a", "d", "r", "e", "z", "a", " ",
      "R", "e", "z", "a", "e", "i">>

\* str.lower on one character
LowerChar(c) ==
    CASE c = "A" -> "a"
      [] c = "N" -> "n"
      [] c = "Y" -> "y"
      [] c = "Q" -> "q"
      [] c = "M" -> "m"
      [] c = "R" -> "r"
      [] OTHER -> c

\* str.lower
Lower(s) == [i \in DOMAIN s |-> LowerChar(s[i])]

IsSpace(c) == c = " "

\* \w of the regular expression: letters, digits, underscore
IsWord(c) == c \notin {" ", ".", ",", "'"}

\* str.strip
RECURSIVE LStrip(_)
LStrip(s) == IF s # << >> /\ IsSpace(Head(s)) THEN LStrip(Tail(s)) ELSE s

RECURSIVE RStrip(_)
RStrip(s) ==
    IF s # << >> /\ IsSpace(s[Len(s)])
    THEN RStrip(SubSeq(s, 1, Len(s) - 1))
    ELSE s

Strip(s) == RStrip(LStrip(s))

KeepWordOrSpace(c) == IsWord(c) \/ IsSpace(c)

\* clean_text: lower, drop every character that is neither \w nor \s, strip
clean_text(text) == Strip(SelectSeq(Lower(text), KeepWordOrSpace))

-----------------------------------------------------------------------------
(* Similarity: model.encode and util.cos_sim *)

\* The embedding of a string, as the class of strings that share it.  The
\* sentence-transformer's tokenizer lower-cases its input, so "Ali" and
\* "ali" have one embedding.
Embedding(s) ==
    CASE s = Ali    -> "eAli"
      [] s = AliCap -> "eAli"
      [] s = Aly    -> "eAly"
      [] s = Al     -> "eAl"
      [] s = NoneS  -> "eNone"
      [] OTHER      -> "eOther"

\* cosine similarity of two embeddings, in hundredths
CosTable(a, b) ==
    CASE {a, b} = {"eAli", "eAly"} -> 90
      [] {a, b} = {"eAli", "eAl"}  -> 85
      [] {a, b} = {"eAly", "eAl"}  -> 80
      [] {a, b} = {"eAl", "eNone"} -> 0 - 10
      [] OTHER -> 20

cos_sim(x, y) ==
    IF Embedding(x) = Embedding(y) THEN 100
    ELSE CosTable(Embedding(x), Embedding(y))

Threshold == 85

-----------------------------------------------------------------------------
(* The matcher: lines 88-119 of resolve_name *)

\* the list of line 89 as it would be without its type filter
RECURSIVE entity_listUnfiltered(_, _, _)
entity_listUnfiltered(entities, t, i) ==
    IF i > Len(entities) THEN << >>
    ELSE <<i>> \o entity_listUnfiltered(entities, t, i + 1)

\* positions in all_entities of the entries of [e for e in all_entities
\* if e.get("type") == entity_type], in list order
RECURSIVE entity_list(_, _, _)
entity_list(entities, t, i) ==
    IF i > Len(entities) THEN << >>
    ELSE IF entities[i].type = t
         THEN <<i>> \o entity_list(entities, t, i + 1)
         ELSE entity_list(entities, t, i + 1)

\* the locals before the loop (lines 94-97); entry 0 is None; variant is
\* the loop variable of line 111, unbound until a variant is iterated
InitBest ==
    [score |-> 0, match |-> Empty, entry |-> 0, source |-> "None",
     variant |-> <<"unbound">>]

\* lines 101-108 as they would be with >= in place of > at line 104
CheckStandardLastWins(b, e, i, q) ==
    IF cos_sim(q, e.standard_name) >= b.score
    THEN [b EXCEPT !.score = cos_sim(q, e.standard_name),
                   !.match = e.standard_name,
                   !.entry = i,
                   !.source = "standard"]
    ELSE b

\* lines 101-108
CheckStandard(b, e, i, q) ==
    IF cos_sim(q, e.standard_name) > b.score
    THEN [b EXCEPT !.score = cos_sim(q, e.standard_name),
                   !.match = e.standard_name,
                   !.entry = i,
                   !.source = "standard"]
    ELSE b

\* lines 111-119 as they would be if no variant were compared
CheckVariantsSkipped(b, e, i, q, k) == b

\* lines 111-119, from variant number k on
RECURSIVE CheckVariants(_, _, _, _, _)
CheckVariants(b, e, i, q, k) ==
    IF k > Len(e.variants) THEN b
    ELSE LET v  == e.variants[k]
             b1 == [b EXCEPT !.variant = <<"bound", v>>]
             b2 == IF cos_sim(q, v) > b1.score
                   THEN [b1 EXCEPT !.score = cos_sim(q, v),
                                   !.match = e.standard_name,
                                   !.entry = i,
                                   !.source = "variant"]
                   ELSE b1
         IN CheckVariants(b2, e, i, q, k + 1)

\* the loop of line 99 over the filtered list, from position j on
RECURSIVE MatchLoop(_, _, _, _, _)
MatchLoop(b, entities, idx, q, j) ==
    IF j > Len(idx) THEN b
    ELSE LET i == idx[j]
             e == entities[i]
         IN MatchLoop(CheckVariants(CheckStandard(b, e, i, q), e, i, q, 1),
                      entities, idx, q, j + 1)

Matcher(entities, q, t) ==
    MatchLoop(InitBest, entities, entity_list(entities, t, 1), q, 1)

\* line 122 as it would be with >= in place of >
GoodMatchAtThreshold(b) == b.score >= Threshold /\ b.entry # 0

\* line 125: what the confirmation shows as the origin of the match
match_info(b) ==
    IF b.source = "variant" THEN <<"variant", b.variant[2]>>
    ELSE <<"standard name", b.match>>

\* line 122
GoodMatch(b) == b.score > Threshold /\ b.entry # 0

-----------------------------------------------------------------------------
(* Registry updates *)

InSeq(x, s) == \E k \in DOMAIN s : s[k] = x

\* lines 132-133 as they would be if the list were replaced by the name
AttachVariantReplacing(entities, i, q) ==
    [entities EXCEPT ![i].variants = <<q>>]

\* lines 132-133 as they would be without the membership test
AttachVariantUnchecked(entities, i, q) ==
    [entities EXCEPT ![i].variants = Append(@, q)]

\* if name not in entry["variants"]: entry["variants"].append(name)
AttachVariant(entities, i, q) ==
    IF InSeq(q, entities[i].variants) THEN entities
    ELSE [entities EXCEPT ![i].variants = Append(@, q)]

\* dict.get(key, "")
Get(info, k) == IF k \in DOMAIN info THEN info[k] ELSE Empty

\* lines 186-199 and 219-232: the new entry with its type-specific fields
NewEntry(id, t, std, variants, info) ==
    LET common == [id |-> id, type |-> t, standard_name |-> std,
                   variants |-> variants]
    IN CASE t = "affiliation" ->
              [id |-> id, type |-> t, standard_name |-> std,
               variants |-> variants,
               city |-> Get(info, "city"),
               province_state |-> Get(info, "province_state"),
               country |-> Get(info, "country")]
         [] t = "journal" ->
              [id |-> id, type |-> t, standard_name |-> std,
               variants |-> variants,
               publisher |-> Get(info, "publisher")]
         [] OTHER -> common

\* line 175-177: the first entry of the type with that standard name, 0 if none
ExistingEntry(entities, t, std) ==
    IF \E i \in DOMAIN entities :
           entities[i].type = t /\ entities[i].standard_name = std
    THEN CHOOSE i \in DOMAIN entities :
           /\ entities[i].type = t /\ entities[i].standard_name = std
           /\ \A j \in 1..(i - 1) :
                ~(entities[j].type = t /\ entities[j].standard_name = std)
    ELSE 0

-----------------------------------------------------------------------------
(* prompt_user, lines 147-235 *)

\* str(uuid.uuid4()): an identifier no entry has yet.  The code never
\* compares ids, so the least unused number stands for every fresh value.
FreshId(entities) ==
    CHOOSE n \in 1..(Len(entities) + 1) :
        /\ \A i \in DOMAIN entities : entities[i].id # n
        /\ \A m \in 1..(n - 1) : \E i \in DOMAIN entities : entities[i].id = m

\* lines 173-202 as they would be without the test of line 190: the query
\* is always the first variant of the new entry
TypedOutcomeAlwaysVariant(entities, q, t, user_input, info) ==
    LET existing_entry == ExistingEntry(entities, t, user_input)
    IN IF existing_entry # 0
       THEN [entities |-> AttachVariant(entities, existing_entry, q),
             ret |-> user_input]
       ELSE [entities |->
                 Append(entities,
                        NewEntry(FreshId(entities), t, user_input, <<q>>,
                                 info)),
             ret |-> user_input]

\* lines 173-202: a non-empty user_input
TypedOutcome(entities, q, t, user_input, info) ==
    LET existing_entry == ExistingEntry(entities, t, user_input)
    IN IF existing_entry # 0
       THEN [entities |-> AttachVariant(entities, existing_entry, q),
             ret |-> user_input]
       ELSE [entities |->
                 Append(entities,
                        NewEntry(FreshId(entities), t, user_input,
                                 IF q # user_input THEN <<q>> ELSE << >>,
                                 info)),
             ret |-> user_input]

\* lines 205-235 as they would be without the append of line 233
KeepOutcomeUnstored(entities, q, t, info) ==
    [entities |-> entities, ret |-> q]

\* lines 205-235 as they would be with the query also stored as a variant
KeepOutcomeWithVariant(entities, q, t, info) ==
    [entities |-> Append(entities,
                         NewEntry(FreshId(entities), t, q, <<q>>, info)),
     ret |-> q]

\* lines 205-235: an empty user_input keeps the original name
KeepOutcome(entities, q, t, info) ==
    [entities |-> Append(entities,
                         NewEntry(FreshId(entities), t, q, << >>, info)),
     ret |-> q]

\* lines 166-171 and 210-216: the optional fields asked on the console for
\* the type, each passed through clean_text; the other keys of
\* additional_info stay as they are
AskedFields(t) ==
    CASE t = "affiliation" -> {"city", "province_state", "country"}
      [] t = "journal" -> {"publisher"}
      [] OTHER -> {}

ConsoleInfo(additional_info, t, lines) ==
    [k \in (DOMAIN additional_info) \cup AskedFields(t) |->
        IF k \in AskedFields(t) THEN clean_text(Strip(lines[k]))
        ELSE additional_info[k]]

EmptyDict == [k \in {} |-> Empty]

\* line 157 as it would be without .lower()
IsEmptyMarkerCaseSensitive(raw_input) == raw_input \in {EmptyS, NoneS}

\* lines 154-158: the console line is the keep-as-empty marker
IsEmptyMarker(raw_input) == Lower(raw_input) \in {EmptyS, NoneS}

\* lines 173-235 for either backend, once user_input and additional_info
\* are known; `lines` are the console answers to the optional questions
PromptOutcome(entities, q, t, user_input, additional_info, lines) ==
    IF user_input # Empty
    THEN TypedOutcome(entities, q, t, user_input, additional_info)
    ELSE KeepOutcome(entities, q, t, ConsoleInfo(additional_info, t, lines))

-----------------------------------------------------------------------------
(* Inputs *)

\* (name, entity_type) pairs handed to resolve_name: two author names that
\* score 0.90 against each other, two journal names that score exactly
\* 0.85, and one name asked for under both types
Queries ==
    {<<Ali, "author">>, <<Aly, "author">>,
     <<Ali, "journal">>, <<Al, "journal">>}

\* lines typed at "Accept this match? (y/n): "
ConfirmLines == {Y, YesPad, N}

\* lines typed at "Your choice: "
ConsoleLines == {Empty, NoneCap, AliCap}

\* answers of an installed handler: (user_input, additional_info)
HandlerAnswers == {Empty, AliCap}
HandlerInfos == {[city |-> Qom]}

\* lines typed at the optional city / province / country / publisher questions
OptionalLines ==
    {[city |-> Empty, province_state |-> Empty, country |-> QomCap,
      publisher |-> QomCap]}

WithinBounds(entities) ==
    /\ Len(entities) <= MaxEntities
    /\ \A i \in DOMAIN entities : Len(entities[i].variants) <= MaxVariants

-----------------------------------------------------------------------------
(* State machine *)

NoRet == <<"none">>
Returned(s) == <<"value", s>>
NoAnswer == [kind |-> "none", raw |-> Empty, value |-> Empty]

\* no resolve_name call is in progress and none has returned yet
NoCall ==
    /\ pc = "idle"
    /\ name = Empty
    /\ entity_type = "None"
    /\ pre = << >>
    /\ best = InitBest
    /\ ret = NoRet
    /\ asked = FALSE
    /\ confirm = <<"unset">>
    /\ prompted = FALSE
    /\ answer = NoAnswer

\* the frame of the returned call is dropped
ForgetCall ==
    /\ pc' = "idle"
    /\ name' = Empty
    /\ entity_type' = "None"
    /\ pre' = << >>
    /\ best' = InitBest
    /\ ret' = NoRet
    /\ asked' = FALSE
    /\ confirm' = <<"unset">>
    /\ prompted' = FALSE
    /\ answer' = NoAnswer

\* no run_pipeline call, no session history, no entry and no dictionary
\* are followed
NoRun == [mode |-> "none", urls |-> "none", records |-> 0, saves |-> 0,
          reported |-> FALSE, error |-> "none", file0 |-> << >>]
NoSession == << >>
NoEntryAtHand == [stage |-> "none"]
NoDict == << >>
NoOp == [kind |-> "none"]
AuxOff ==
    /\ run = NoRun
    /\ session = NoSession
    /\ entry = NoEntryAtHand
    /\ std_dict = NoDict
    /\ op = NoOp

\* no registry file yet
NoFile == [kind |-> "absent", doc |-> << >>, by |-> "other"]

\* run_pipeline has loaded the empty registry of a first run (line 369)
Init ==
    /\ all_entities = << >>
    /\ CONFIRM_MATCHES = FALSE
    /\ prompt_handler = "None"
    /\ NoCall
    /\ file = NoFile
    /\ loaded = <<"none">>
    /\ phase = "run"
    /\ AuxOff

\* set_prompt_handler, lines 16-18
SetPromptHandler(h) ==
    /\ pc = "idle"
    /\ prompt_handler # h
    /\ prompt_handler' = h
    /\ UNCHANGED <<all_entities, CONFIRM_MATCHES, pc, name, entity_type, pre,
                   best, ret, asked, confirm, prompted, answer>>
    /\ UNCHANGED diskVars
    /\ UNCHANGED auxVars

\* run_pipeline, lines 372-374
SetConfirm(c) ==
    /\ pc = "idle"
    /\ CONFIRM_MATCHES # c
    /\ CONFIRM_MATCHES' = c
    /\ UNCHANGED <<all_entities, prompt_handler, pc, name, entity_type, pre,
                   best, ret, asked, confirm, prompted, answer>>
    /\ UNCHANGED diskVars
    /\ UNCHANGED auxVars

\* resolve_name, lines 86-128 and 138-145: up to the first point where the
\* call blocks for a human answer, or to its return
ResolveName(q, t) ==
    LET b == Matcher(all_entities, q, t)
    IN /\ pc = "idle"
       /\ name' = q
       /\ entity_type' = t
       /\ pre' = all_entities
       /\ best' = b
       /\ answer' = NoAnswer
       /\ confirm' = <<"unset">>
       /\ IF GoodMatch(b)
          THEN IF CONFIRM_MATCHES
               THEN /\ pc' = "confirm"
                    /\ asked' = TRUE
                    /\ prompted' = FALSE
                    /\ ret' = NoRet
                    /\ UNCHANGED all_entities
               ELSE /\ all_entities' = AttachVariant(all_entities, b.entry, q)
                    /\ WithinBounds(all_entities')
                    /\ pc' = "returned"
                    /\ asked' = FALSE
                    /\ prompted' = FALSE
                    /\ ret' = Returned(b.match)
          ELSE /\ pc' = "prompt"
               /\ asked' = FALSE
               /\ prompted' = TRUE
               /\ ret' = NoRet
               /\ UNCHANGED all_entities
       /\ UNCHANGED <<CONFIRM_MATCHES, prompt_handler>>
       /\ UNCHANGED diskVars
       /\ UNCHANGED auxVars

\* line 131 as it would be if any non-empty answer were an acceptance
AcceptsAnyAnswer(c) == c # Empty

\* line 131 as it would be if only 'y' were an acceptance
AcceptsOnlyY(c) == c = Y

\* line 131: confirm in ['y', 'yes']
Accepts(c) == c \in {Y, Yes}

\* resolve_name, lines 129-137: the answer to "Accept this match? (y/n): "
ConfirmAnswer(line) ==
    LET c == Lower(Strip(line))
    IN /\ pc = "confirm"
       /\ confirm' = <<"set", c>>
       /\ IF Accepts(c)
          THEN /\ all_entities' = AttachVariant(all_entities, best.entry, name)
               /\ WithinBounds(all_entities')
               /\ pc' = "returned"
               /\ ret' = Returned(best.match)
               /\ UNCHANGED prompted
          ELSE /\ pc' = "prompt"
               /\ prompted' = TRUE
               /\ UNCHANGED <<all_entities, ret>>
       /\ UNCHANGED <<CONFIRM_MATCHES, prompt_handler, name, entity_type, pre,
                      best, asked, answer>>
       /\ UNCHANGED diskVars
       /\ UNCHANGED auxVars

\* prompt_user without a handler, lines 152-235
PromptConsole(line, lines) ==
    LET raw_input  == Strip(line)
        user_input == IF raw_input # Empty THEN clean_text(raw_input) ELSE Empty
        info       == IF user_input # Empty
                      THEN ConsoleInfo(EmptyDict, entity_type, lines)
                      ELSE EmptyDict
        out        == PromptOutcome(all_entities, name, entity_type,
                                    user_input, info, lines)
    IN /\ pc = "prompt"
       /\ prompt_handler = "None"
       /\ IF IsEmptyMarker(raw_input)
          THEN /\ ret' = Returned(Empty)
               /\ answer' = [kind |-> "empty", raw |-> line, value |-> Empty]
               /\ UNCHANGED all_entities
          ELSE /\ all_entities' = out.entities
               /\ WithinBounds(all_entities')
               /\ ret' = Returned(out.ret)
               /\ answer' = [kind |-> IF user_input # Empty THEN "typed"
                                      ELSE "passthrough",
                             raw |-> line, value |-> user_input]
       /\ pc' = "returned"
       /\ UNCHANGED <<CONFIRM_MATCHES, prompt_handler, name, entity_type, pre,
                      best, asked, confirm, prompted>>
       /\ UNCHANGED diskVars
       /\ UNCHANGED auxVars

\* prompt_user with a handler installed, lines 149-150 and 173-235
PromptHandler(user_input, additional_info, lines) ==
    LET out == PromptOutcome(all_entities, name, entity_type,
                             user_input, additional_info, lines)
    IN /\ pc = "prompt"
       /\ prompt_handler = "handler"
       /\ all_entities' = out.entities
       /\ WithinBounds(all_entities')
       /\ ret' = Returned(out.ret)
       /\ answer' = [kind |-> IF user_input # Empty THEN "typed"
                              ELSE "passthrough",
                     raw |-> user_input, value |-> user_input]
       /\ pc' = "returned"
       /\ UNCHANGED <<CONFIRM_MATCHES, prompt_handler, name, entity_type, pre,
                      best, asked, confirm, prompted>>
       /\ UNCHANGED diskVars
       /\ UNCHANGED auxVars

\* the caller (standardize_entry, lines 344, 353, 361) takes the result
\* and the registry; the locals of the call are gone
Return ==
    /\ pc = "returned"
    /\ ForgetCall
    /\ UNCHANGED <<all_entities, CONFIRM_MATCHES, prompt_handler>>
    /\ UNCHANGED diskVars
    /\ UNCHANGED auxVars

Next ==
    \/ \E h \in {"None", "handler"} : SetPromptHandler(h)
    \/ \E c \in BOOLEAN : SetConfirm(c)
    \/ \E qt \in Queries : ResolveName(qt[1], qt[2])
    \/ \E line \in ConfirmLines : ConfirmAnswer(line)
    \/ \E line \in ConsoleLines, lines \in OptionalLines :
           PromptConsole(line, lines)
    \/ \E a \in HandlerAnswers, i \in HandlerInfos, lines \in OptionalLines :
           PromptHandler(a, i, lines)
    \/ Return

Spec == Init /\ [][Next]_vars

-----------------------------------------------------------------------------
(* Definitions the properties are stated with *)

\* the candidates of a call: the entries of the requested type
Candidates(entities, t) == {i \in DOMAIN entities : entities[i].type = t}

\* the set of scores of one entry: against its standard name and against
\* each of its variants
ScoresOf(e, q) ==
    {cos_sim(q, e.standard_name)}
        \cup {cos_sim(q, e.variants[k]) : k \in DOMAIN e.variants}

SetMax(S) == CHOOSE m \in S : \A x \in S : x <= m

\* the overall score of an entry: the maximum over all its comparisons
OverallScore(e, q) == SetMax(ScoresOf(e, q))

\* the best overall score among the candidates (only used when there are some)
BestScore(entities, q, t) ==
    SetMax({OverallScore(entities[i], q) : i \in Candidates(entities, t)})

\* a candidate scored above the accept threshold when the call started
MatchFound ==
    /\ Candidates(pre, entity_type) # {}
    /\ BestScore(pre, name, entity_type) > Threshold

NoDuplicates(s) == \A k, l \in DOMAIN s : s[k] = s[l] => k = l

\* entry i of the registry is as it was when the call started
Untouched(i) == all_entities[i] = pre[i]

\* entry i is as it was when the call started, but for the query string
\* added at the end of its variants when it was not among them
AttachedTo(i) ==
    /\ all_entities[i] =
         [pre[i] EXCEPT !.variants =
            IF InSeq(name, pre[i].variants) THEN @ ELSE Append(@, name)]
    /\ InSeq(name, all_entities[i].variants)

\* the call added no entry and changed none but entry i
OnlyChanged(i) ==
    /\ Len(all_entities) = Len(pre)
    /\ \A j \in DOMAIN pre : j # i => Untouched(j)

-----------------------------------------------------------------------------
(* C1.  After any sequence of resolve_name calls, in either confirm mode   *)
(* and with any human answers, no two entities of the same type have the   *)
(* same standard_name.  (The code does not keep this: lines 205-235.)      *)
C1_UniqueStandardNames ==
    \A i, j \in DOMAIN all_entities :
        (/\ i # j
         /\ all_entities[i].type = all_entities[j].type)
        => all_entities[i].standard_name # all_entities[j].standard_name

(* C2.  After any sequence of resolve_name calls, no string is in the      *)
(* variants of more than one entity of the same type.  (The code does not  *)
(* keep this: lines 137 and 184-202.)                                      *)
C2_VariantOfOneEntity ==
    \A i, j \in DOMAIN all_entities :
        (/\ i # j
         /\ all_entities[i].type = all_entities[j].type)
        => \A k \in DOMAIN all_entities[i].variants :
               ~InSeq(all_entities[i].variants[k], all_entities[j].variants)

-----------------------------------------------------------------------------
\* what the human typed as the answer of the full prompt: the console line
\* without its surrounding blanks, or the answer the handler passed on
TypedLine == IF prompt_handler = "None" THEN Strip(answer.raw) ELSE answer.raw

\* the console line is one of the keep-as-empty words
TypedMarker ==
    prompt_handler = "None" /\ Lower(Strip(answer.raw)) \in {EmptyS, NoneS}

\* the standard name the prompt yields from the answer: the handler's
\* answer as given, the console line after clean_text
YieldedName ==
    IF prompt_handler = "None" THEN clean_text(Strip(answer.raw))
    ELSE answer.raw

HasName(entities, t, std) ==
    \E i \in Candidates(entities, t) : entities[i].standard_name = std

\* the first entry of the type with that standard name
FirstNamed(entities, t, std) ==
    CHOOSE i \in Candidates(entities, t) :
        /\ entities[i].standard_name = std
        /\ \A j \in Candidates(entities, t) :
               entities[j].standard_name = std => i <= j

(* C3.  When the human types, in the full prompt, a non-empty standard     *)
(* name equal to the standard_name of an existing entity of the requested  *)
(* type, no entity is created, the query is attached to that entity's      *)
(* variants (if not already there) and its name is returned.  (The code    *)
(* does not keep this: the console line is cleaned at line 161, a          *)
(* handler's answer at line 150 is not, and line 175 compares exactly.)    *)
C3_TypedExistingNameMerges ==
    (/\ pc = "returned" /\ prompted
     /\ TypedLine # Empty
     /\ HasName(pre, entity_type, TypedLine))
    => \E i \in Candidates(pre, entity_type) :
          /\ pre[i].standard_name = TypedLine
          /\ OnlyChanged(i)
          /\ AttachedTo(i)
          /\ ret = Returned(pre[i].standard_name)

(* What lines 173-183 do keep: when the name the prompt derives from the   *)
(* answer (the handler's answer as given; the console line after           *)
(* clean_text, unless it is the word 'empty' or 'none') is non-empty and   *)
(* equals the standard_name of an existing entity of the requested type,   *)
(* the query is attached to the first such entity and no entity is made.   *)
YieldedExistingNameMerges ==
    (/\ pc = "returned" /\ prompted
     /\ ~TypedMarker
     /\ YieldedName # Empty
     /\ HasName(pre, entity_type, YieldedName))
    => LET i == FirstNamed(pre, entity_type, YieldedName)
       IN /\ OnlyChanged(i)
          /\ AttachedTo(i)
          /\ ret = Returned(pre[i].standard_name)

(* C4.  If there are no candidates of the requested type, or the best      *)
(* overall score among them is at most 0.85 (0.85 itself included), the    *)
(* call asks for no confirmation, attaches the query to nothing on its own *)
(* and enters the full prompt with the registry as it was.                 *)
C4_AtOrBelowThresholdPrompts ==
    (pc # "idle" /\ ~MatchFound)
    => /\ pc \in {"prompt", "returned"}
       /\ ~asked
       /\ prompted
       /\ pc = "prompt" => (all_entities = pre /\ ret = NoRet)

\* the call waits in the full prompt after a best score of exactly 0.85
C4_Witness ==
    /\ pc = "prompt"
    /\ Candidates(pre, entity_type) # {}
    /\ BestScore(pre, name, entity_type) = Threshold

(* C5.  With confirm mode off and a best score above 0.85, the call        *)
(* returns at once, with no confirmation and no prompt, the standard_name  *)
(* of a best-scoring entity; the query is among that entity's variants     *)
(* afterwards, nothing else of the registry changed, no entity was made.   *)
C5_AutoAccept ==
    (pc # "idle" /\ ~CONFIRM_MATCHES /\ MatchFound)
    => /\ pc = "returned"
       /\ ~asked
       /\ ~prompted
       /\ \E i \in Candidates(pre, entity_type) :
             /\ OverallScore(pre[i], name) = BestScore(pre, name, entity_type)
             /\ ret = Returned(pre[i].standard_name)
             /\ AttachedTo(i)
             /\ OnlyChanged(i)

\* an auto-accepted match that added a new variant
C5_Witness ==
    /\ pc = "returned" /\ ~CONFIRM_MATCHES /\ MatchFound
    /\ all_entities # pre
    /\ name # ret[2]

-----------------------------------------------------------------------------
\* the human answered the confirmation question, with or without acceptance
Accepted == asked /\ confirm[1] = "set" /\ confirm[2] \in {Y, Yes}
Rejected == asked /\ confirm[1] = "set" /\ confirm[2] \notin {Y, Yes}

\* the match was taken: the call returned without the full prompt
MatchTaken == pc = "returned" /\ ~prompted

(* C6, for every registry.  No variants list holds a string twice, and     *)
(* resolving a string that is already a variant of entity E returns        *)
(* E.standard_name again and leaves E.variants unchanged.  (Read in the    *)
(* claim's favour: only the calls that take the match, so that a human who *)
(* rejects it in confirm mode does not count against the claim.)           *)
C6_AbsorbedVariantReturnsSame ==
    /\ \A i \in DOMAIN all_entities : NoDuplicates(all_entities[i].variants)
    /\ MatchTaken =>
         \A i \in Candidates(pre, entity_type) :
             InSeq(name, pre[i].variants)
             => /\ ret = Returned(pre[i].standard_name)
                /\ all_entities[i].variants = pre[i].variants

(* C6, with the order of the registry.  No variants list ever holds a      *)
(* string twice; resolving a string that is already a variant of entity E  *)
(* leaves E.variants unchanged, and returns E.standard_name again whenever *)
(* the match is taken (confirm mode off, or the human accepts it) and no   *)
(* entity earlier in the registry scores as high as E.                     *)
C6_NoDuplicateVariants ==
    /\ \A i \in DOMAIN all_entities : NoDuplicates(all_entities[i].variants)
    /\ pc # "idle" =>
         \A i \in Candidates(pre, entity_type) :
             InSeq(name, pre[i].variants)
             => /\ all_entities[i].variants = pre[i].variants
                /\ (/\ MatchTaken
                    /\ \A j \in Candidates(pre, entity_type) :
                          j < i => OverallScore(pre[j], name)
                                     < OverallScore(pre[i], name))
                   => ret = Returned(pre[i].standard_name)

\* a string that was already a variant of an entity with other variants
\* was resolved again and the entity's name came back
C6_Witness ==
    /\ MatchTaken
    /\ \E i \in Candidates(pre, entity_type) :
          /\ InSeq(name, pre[i].variants)
          /\ Len(pre[i].variants) > 1
          /\ ret = Returned(pre[i].standard_name)

(* C7.  Type filtering is absolute: during and after a resolve_name call   *)
(* for type T no entity of another type is changed (no variant appended,   *)
(* no merge through a typed name), the matcher selects no such entity, and *)
(* the name returned is empty or the standard_name of an entity of type T. *)
C7_TypeIsolation ==
    pc # "idle" =>
       /\ \A j \in DOMAIN pre :
             pre[j].type # entity_type
             => (j \in DOMAIN all_entities /\ Untouched(j))
       /\ best.entry # 0 => pre[best.entry].type = entity_type
       /\ pc = "returned" =>
             \/ ret = Returned(Empty)
             \/ \E i \in Candidates(all_entities, entity_type) :
                   ret = Returned(all_entities[i].standard_name)

\* the query and the name typed in the prompt were both identical to the
\* standard_name of an entity of another type, and a new entity was made
C7_Witness ==
    /\ pc = "returned" /\ prompted /\ ~TypedMarker
    /\ \E j \in DOMAIN pre :
          /\ pre[j].type # entity_type
          /\ pre[j].standard_name = name
          /\ pre[j].standard_name = YieldedName
    /\ Len(all_entities) = Len(pre) + 1

\* the entry the call appended
NewEntity == all_entities[Len(all_entities)]

\* the call appended one entry and changed no other
CreatedOne ==
    /\ Len(all_entities) = Len(pre) + 1
    /\ \A j \in DOMAIN pre : Untouched(j)
    /\ NewEntity.type = entity_type

(* C8, read on the line as typed.  After a rejected confirmation the call  *)
(* is in the full prompt with the registry unchanged, and a typed standard *)
(* name that no entity of the type has creates a new entity instead of a   *)
(* merge.                                                                  *)
C8_RejectThenTypedNewNameCreates ==
    Rejected =>
       /\ prompted
       /\ pc \in {"prompt", "returned"}
       /\ pc = "prompt" => (all_entities = pre /\ ret = NoRet)
       /\ (/\ pc = "returned"
           /\ TypedLine # Empty
           /\ ~TypedMarker
           /\ ~HasName(pre, entity_type, TypedLine))
          => CreatedOne

(* C8, read on the name the code derives.  In confirm mode with best score *)
(* > 0.85, if the human rejects the proposed match, the matched entity is  *)
(* unchanged when the full prompt is entered and resolution continues      *)
(* there as if no match had been found; a standard name yielded from the   *)
(* answer (the handler's answer as given, the console line after           *)
(* clean_text) that no entity of that type has then creates a new entity   *)
(* with that name and leaves the rejected one unchanged.                   *)
C8_RejectThenYieldedNewNameCreates ==
    Rejected =>
       /\ MatchFound
       /\ prompted
       /\ pc \in {"prompt", "returned"}
       /\ pc = "prompt" => (all_entities = pre /\ ret = NoRet)
       /\ (/\ pc = "returned"
           /\ YieldedName # Empty
           /\ ~TypedMarker
           /\ ~HasName(pre, entity_type, YieldedName))
          => /\ CreatedOne
             /\ NewEntity.standard_name = YieldedName
             /\ ret = Returned(YieldedName)

\* a rejected match followed by a new standard name
C8_Witness ==
    /\ Rejected /\ pc = "returned"
    /\ YieldedName # Empty /\ ~TypedMarker
    /\ ~HasName(pre, entity_type, YieldedName)
    /\ Len(all_entities) = Len(pre) + 1
    /\ NewEntity.variants = <<name>>

(* C9.  In confirm mode with best score > 0.85, if the human accepts the   *)
(* proposed match (y or yes), the call returns the standard_name of the    *)
(* matched, best-scoring entity without entering the full prompt, and the  *)
(* query is attached to that entity's variants if it was not there.        *)
C9_AcceptAttaches ==
    /\ asked => (CONFIRM_MATCHES /\ MatchFound)
    /\ (pc # "idle" /\ CONFIRM_MATCHES /\ MatchFound) => asked
    /\ Accepted =>
         /\ pc = "returned"
         /\ ~prompted
         /\ \E i \in Candidates(pre, entity_type) :
               /\ OverallScore(pre[i], name)
                    = BestScore(pre, name, entity_type)
               /\ ret = Returned(pre[i].standard_name)
               /\ AttachedTo(i)
               /\ OnlyChanged(i)

\* an accepted match ("yes") that added a new variant
C9_Witness ==
    /\ Accepted /\ pc = "returned"
    /\ confirm[2] = Yes
    /\ all_entities # pre

(* C10.  When the human answers the full (console) prompt with the         *)
(* keep-as-empty word ('empty' or 'none', in any case), the call returns   *)
(* the empty string and the registry is as it was before the call.         *)
C10_KeepEmptyLeavesRegistry ==
    (pc = "returned" /\ prompted /\ TypedMarker)
    => /\ ret = Returned(Empty)
       /\ all_entities = pre

\* the keep-as-empty answer was given against a registry with entries
C10_Witness ==
    /\ pc = "returned" /\ prompted /\ TypedMarker
    /\ Candidates(pre, entity_type) # {}
    /\ ret = Returned(Empty)

-----------------------------------------------------------------------------
(* C11.  When the human gives no input in the full prompt (an empty        *)
(* console line, or an empty answer of the handler), exactly one entity of *)
(* the requested type is appended, with the query as its standard_name and *)
(* no variants, nothing else changes and the query is returned unchanged.  *)
C11_PassThroughCreates ==
    (pc = "returned" /\ prompted /\ TypedLine = Empty)
    => /\ CreatedOne
       /\ NewEntity.standard_name = name
       /\ NewEntity.variants = << >>
       /\ ret = Returned(name)

\* a pass-through for a name that an entity of the type already has
C11_Witness ==
    /\ pc = "returned" /\ prompted /\ TypedLine = Empty
    /\ HasName(pre, entity_type, name)
    /\ Len(all_entities) = Len(pre) + 1

\* Scenario 1 on one backend: the registry after prompt_user for the query
\* 'Mohammad Rezaei' of type author, from the empty registry, with the
\* user_input the backend derives from the answer 'Mohammadreza Rezaei'
Scenario1(user_input) ==
    PromptOutcome(<< >>, MohammadRezaei, "author", user_input, EmptyDict,
                  [city |-> Empty, province_state |-> Empty,
                   country |-> Empty, publisher |-> Empty])

(* C12, read on the line as typed.  A typed standard name that no entity   *)
(* of the type has creates exactly one entity with that standard_name,     *)
(* whose variants are the query alone when the query differs from the      *)
(* typed name and empty when they are equal; in Scenario 1 the one author  *)
(* entity has the variants ['Mohammad Rezaei'].                            *)
C12_TypedNewNameCreates ==
    /\ (/\ pc = "returned" /\ prompted
        /\ TypedLine # Empty
        /\ ~TypedMarker
        /\ ~HasName(pre, entity_type, TypedLine))
       => /\ CreatedOne
          /\ NewEntity.standard_name = TypedLine
          /\ NewEntity.variants =
                IF name # TypedLine THEN <<name>> ELSE << >>
    /\ \A u \in {MohammadrezaRezaei, clean_text(MohammadrezaRezaei)} :
          /\ Len(Scenario1(u).entities) = 1
          /\ Scenario1(u).entities[1].variants = <<MohammadRezaei>>

(* C12, read on the name the code derives.  When the standard name derived *)
(* from the answer (the console line after clean_text, a handler's answer  *)
(* as given) is non-empty and no entity of the type has it, exactly one    *)
(* entity is created with that derived name, whose variants are the query  *)
(* alone when the query differs from the derived name and empty when they  *)
(* are equal; in Scenario 1 the one author entity has the variants         *)
(* ['Mohammad Rezaei'] and the standard_name 'mohammadreza rezaei' on the  *)
(* console, 'Mohammadreza Rezaei' with a handler.                          *)
C12_YieldedNewNameCreates ==
    /\ (/\ pc = "returned" /\ prompted
        /\ YieldedName # Empty
        /\ ~TypedMarker
        /\ ~HasName(pre, entity_type, YieldedName))
       => /\ CreatedOne
          /\ NewEntity.standard_name = YieldedName
          /\ NewEntity.variants =
                IF name # YieldedName THEN <<name>> ELSE << >>
          /\ ret = Returned(YieldedName)
    /\ \A u \in {MohammadrezaRezaei, clean_text(MohammadrezaRezaei)} :
          Scenario1(u).entities =
             <<[id |-> 1, type |-> "author", standard_name |-> u,
                variants |-> <<MohammadRezaei>>]>>
    /\ clean_text(MohammadrezaRezaei) = Lower(MohammadrezaRezaei)
    /\ clean_text(MohammadrezaRezaei) # MohammadrezaRezaei

\* a new entity whose derived name equals the query, so that it gets no
\* variant, although the line as typed differs from the query
C12_Witness ==
    /\ pc = "returned" /\ prompted
    /\ YieldedName # Empty /\ ~TypedMarker
    /\ ~HasName(pre, entity_type, YieldedName)
    /\ Len(all_entities) = Len(pre) + 1
    /\ name = YieldedName
    /\ TypedLine # name
    /\ NewEntity.variants = << >>

-----------------------------------------------------------------------------
\* the call that would follow the returned one with the same arguments, in
\* non-confirm mode: lines 88-122 and 138-142 on the registry as it is now
SecondBest == Matcher(all_entities, name, entity_type)
SecondRegistry == AttachVariant(all_entities, SecondBest.entry, name)

(* C13, for every registry.  In non-confirm mode, resolving a string that  *)
(* is exactly the standard_name of an existing entity E of the type        *)
(* returns E.standard_name, and resolving it again returns it again and    *)
(* leaves the whole registry unchanged.                                    *)
C13_ExactNameTwice ==
    (pc # "idle" /\ ~CONFIRM_MATCHES /\ HasName(pre, entity_type, name))
    => /\ pc = "returned" /\ ~prompted
       /\ ret = Returned(name)
       /\ GoodMatch(SecondBest)
       /\ SecondBest.match = name
       /\ SecondRegistry = all_entities

(* C13, with the order of the registry.  In non-confirm mode, resolving a  *)
(* string that is exactly the standard_name of an existing entity E of the *)
(* type twice in a row returns the same standard name both times without a *)
(* prompt, and the second call leaves the whole registry unchanged; the    *)
(* name returned is E.standard_name when no entity earlier in the registry *)
(* than E scores as high as E (has the string among its variants or a      *)
(* name with the same embedding).                                          *)
C13_ExactNameTwiceSame ==
    (pc # "idle" /\ ~CONFIRM_MATCHES /\ HasName(pre, entity_type, name))
    => /\ pc = "returned" /\ ~prompted /\ ~asked
       /\ GoodMatch(SecondBest)
       /\ ret = Returned(SecondBest.match)
       /\ SecondRegistry = all_entities
       /\ (\A j \in Candidates(pre, entity_type) :
              j < FirstNamed(pre, entity_type, name)
              => OverallScore(pre[j], name)
                   < OverallScore(pre[FirstNamed(pre, entity_type, name)],
                                  name))
          => ret = Returned(name)

\* the first of the two calls added the standard name itself to the
\* variants of its entity, and the second would add nothing
C13_Witness ==
    /\ pc = "returned" /\ ~CONFIRM_MATCHES
    /\ HasName(pre, entity_type, name)
    /\ ret = Returned(name)
    /\ all_entities # pre
    /\ SecondRegistry = all_entities

-----------------------------------------------------------------------------
(* C15.  When two or more candidates reach the same best score, the        *)
(* matcher selects the one that comes first in registry order: no          *)
(* candidate before the selected one scores as high, and a match that is   *)
(* taken returns the name of, and attaches the query to, that first one.   *)
C15_TieFirstInOrder ==
    (pc # "idle" /\ best.entry # 0)
    => /\ best.entry \in Candidates(pre, entity_type)
       /\ OverallScore(pre[best.entry], name) = best.score
       /\ \A j \in Candidates(pre, entity_type) :
             j < best.entry => OverallScore(pre[j], name) < best.score
       /\ best.match = pre[best.entry].standard_name
       /\ MatchTaken => (/\ ret = Returned(pre[best.entry].standard_name)
                         /\ AttachedTo(best.entry)
                         /\ OnlyChanged(best.entry))

\* two candidates tie at the best score and the match is taken
C15_Witness ==
    /\ MatchTaken /\ best.entry # 0
    /\ \E j \in Candidates(pre, entity_type) :
          /\ j > best.entry
          /\ OverallScore(pre[j], name) = best.score
          /\ pre[j].standard_name # pre[best.entry].standard_name

(* C16.  In confirm mode, when the best score was produced by a variant,   *)
(* the confirmation shows that variant (a variant of the selected entity   *)
(* whose score is the best score), and when it was produced by the         *)
(* standard name it shows the standard name.  (The code does not keep      *)
(* this: line 125 shows the last variant the loop of line 111 visited.)    *)
C16_ShownVariantIsBest ==
    asked =>
       IF best.source = "variant"
       THEN /\ match_info(best)[1] = "variant"
            /\ InSeq(match_info(best)[2], pre[best.entry].variants)
            /\ cos_sim(name, match_info(best)[2]) = best.score
       ELSE match_info(best) =
               <<"standard name", pre[best.entry].standard_name>>

-----------------------------------------------------------------------------
(* The matcher on its own: resolve_name called once on each registry of a  *)
(* bounded set, with names of which two score 0.85, two score 0.20 and two *)
(* score below zero against each other.                                    *)

MatcherNames == {Ali, Al, NoneS}
MatcherTypes == {"author", "journal"}

\* the entries a registry is drawn from: a type, a standard name and at
\* most one variant
MatcherEntries ==
    [type : MatcherTypes, standard_name : MatcherNames,
     variants : {<< >>, <<Ali>>, <<NoneS>>}]

\* the registry with the entries f[1], ..., f[n], as prompt_user builds them
MatcherRegistry(f) ==
    [i \in DOMAIN f |->
        NewEntry(i, f[i].type, f[i].standard_name, f[i].variants, EmptyDict)]

MatcherRegistries ==
    UNION {{MatcherRegistry(f) : f \in [1..n -> MatcherEntries]} :
              n \in 0..MaxEntities}

MatcherInit ==
    /\ all_entities \in MatcherRegistries
    /\ CONFIRM_MATCHES \in BOOLEAN
    /\ prompt_handler = "None"
    /\ NoCall
    /\ file = NoFile
    /\ loaded = <<"none">>
    /\ phase = "run"
    /\ AuxOff

MatcherNext ==
    \E q \in MatcherNames, t \in MatcherTypes : ResolveName(q, t)

MatcherSpec == MatcherInit /\ [][MatcherNext]_vars

(* C14, for every registry.  The entity the matcher selects is a candidate *)
(* of the requested type whose overall score (the maximum over its         *)
(* standard_name and its variants) is the maximum overall score among the  *)
(* candidates, and the score used in the threshold test is that maximum.   *)
C14_SelectsMaxOverall ==
    (pc # "idle" /\ Candidates(pre, entity_type) # {})
    => /\ best.entry \in Candidates(pre, entity_type)
       /\ OverallScore(pre[best.entry], name)
            = BestScore(pre, name, entity_type)
       /\ best.score = BestScore(pre, name, entity_type)

(* C14, with the start value of the loop.  When some candidate of the      *)
(* requested type scores above zero, the entity the matcher selects is a   *)
(* candidate whose overall score is the maximum overall score among the    *)
(* candidates, and the score used in the threshold test is that maximum.   *)
(* When there is no candidate or none scores above zero, no entity is      *)
(* selected, the score used is 0 and the call goes to the full prompt.     *)
C14_SelectsMaxAboveZero ==
    pc # "idle" =>
       IF /\ Candidates(pre, entity_type) # {}
          /\ BestScore(pre, name, entity_type) > 0
       THEN /\ best.entry \in Candidates(pre, entity_type)
            /\ OverallScore(pre[best.entry], name)
                 = BestScore(pre, name, entity_type)
            /\ best.score = BestScore(pre, name, entity_type)
       ELSE /\ best.entry = 0
            /\ best.score = 0
            /\ pc = "prompt"

\* the best score came from a variant of the second of two candidates, the
\* first of which scores lower on its name and on its variant
C14_Witness ==
    /\ pc # "idle"
    /\ best.entry = 2
    /\ best.source = "variant"
    /\ 1 \in Candidates(pre, entity_type)
    /\ pre[1].variants # << >>
    /\ pre[2].standard_name # name
    /\ OverallScore(pre[1], name) < best.score
    /\ OverallScore(pre[1], name) > 0

-----------------------------------------------------------------------------
(* standardize_entry, lines 335-364: one iteration of its loops over the   *)
(* authors and the affiliations of an entry, or its step for the journal.  *)

Space == <<" ">>

\* the names an entry may hold, with the type they are resolved as
EntryQueries ==
    {<<Empty, "author">>, <<Empty, "affiliation">>, <<Empty, "journal">>,
     <<Space, "author">>, <<Space, "affiliation">>, <<Space, "journal">>}

\* `if not author: continue` taken (lines 343, 352), or `if journal:` not
\* taken (line 360): resolve_name is not called for this name
SkipName(q, t) ==
    /\ pc = "idle"
    /\ pc' = "skipped"
    /\ name' = q
    /\ entity_type' = t
    /\ pre' = all_entities
    /\ best' = InitBest
    /\ ret' = NoRet
    /\ asked' = FALSE
    /\ confirm' = <<"unset">>
    /\ prompted' = FALSE
    /\ answer' = NoAnswer
    /\ UNCHANGED <<all_entities, CONFIRM_MATCHES, prompt_handler>>
    /\ UNCHANGED diskVars
    /\ UNCHANGED auxVars

\* lines 342-344 as they would be without the test of line 343
StandardizeNameUnguarded(q, t) == ResolveName(q, t)

\* lines 342-344, 351-353, 359-361: a falsy name is skipped, any other is
\* handed to resolve_name
StandardizeName(q, t) ==
    IF q = Empty THEN SkipName(q, t) ELSE ResolveName(q, t)

\* the loop goes on to the next name after a skipped one
Continue ==
    /\ pc = "skipped"
    /\ ForgetCall
    /\ UNCHANGED <<all_entities, CONFIRM_MATCHES, prompt_handler>>
    /\ UNCHANGED diskVars
    /\ UNCHANGED auxVars

EntryNext ==
    \/ \E h \in {"None", "handler"} : SetPromptHandler(h)
    \/ \E c \in BOOLEAN : SetConfirm(c)
    \/ \E qt \in EntryQueries : StandardizeName(qt[1], qt[2])
    \/ \E line \in ConfirmLines : ConfirmAnswer(line)
    \/ \E line \in ConsoleLines, lines \in OptionalLines :
           PromptConsole(line, lines)
    \/ \E a \in HandlerAnswers, i \in HandlerInfos, lines \in OptionalLines :
           PromptHandler(a, i, lines)
    \/ Return
    \/ Continue

EntrySpec == Init /\ [][EntryNext]_vars

\* nothing of resolve_name ran for the name at hand
ShortCircuited ==
    /\ pc = "skipped"
    /\ ~asked
    /\ ~prompted
    /\ best = InitBest
    /\ ret = NoRet
    /\ all_entities = pre

(* C17.  For an author, affiliation or journal name that is the empty      *)
(* string, standardize_entry makes no match attempt, asks no confirmation, *)
(* invokes no prompt and leaves the registry as it was.                    *)
C17_EmptyNameSkipped ==
    (pc # "idle" /\ name = Empty) => ShortCircuited

\* an empty affiliation was skipped while the registry held entries
C17_Witness ==
    /\ pc = "skipped"
    /\ name = Empty
    /\ entity_type = "affiliation"
    /\ all_entities # << >>

-----------------------------------------------------------------------------
(* The registry file: save_entities (lines 81-84) and load_entities (lines *)
(* 68-79).  A JSON document is a tagged value: <<"string", characters as   *)
(* written between the quotes>>, <<"array", items>> or <<"object", pairs   *)
(* of key and value in the order written>>.                                *)

BackslashName == <<"A", "\\", "l">>

\* json.dump of a str as it would be if nothing were escaped
RECURSIVE EscapeNothing(_)
EscapeNothing(s) ==
    IF s = << >> THEN << >> ELSE <<Head(s)>> \o EscapeNothing(Tail(s))

\* json.dump of a str with ensure_ascii=False: the quote and the backslash
\* are written with a backslash before them, every other character as it is
RECURSIVE Escape(_)
Escape(s) ==
    IF s = << >> THEN << >>
    ELSE (IF Head(s) \in {"\"", "\\"} THEN <<"\\", Head(s)>>
          ELSE <<Head(s)>>) \o Escape(Tail(s))

\* json.load of the characters between the quotes: a backslash stands for
\* the character after it
RECURSIVE Unescape(_)
Unescape(s) ==
    IF s = << >> THEN << >>
    ELSE IF Head(s) = "\\" /\ Len(s) >= 2
         THEN <<s[2]>> \o Unescape(SubSeq(s, 3, Len(s)))
         ELSE <<Head(s)>> \o Unescape(Tail(s))

\* the Python strings of the values the model keeps as atoms: the uuid of
\* an entry (a number here) and the entity type
UuidString(n) == <<"uuid", ToString(n)>>
TypeString(t) == <<t>>
IdRange == 1..(MaxEntities + 1)
TypeAtoms == {"author", "affiliation", "journal"}

\* the value of the model for a Python string
FromString(u) ==
    IF \E n \in IdRange : UuidString(n) = u
    THEN CHOOSE n \in IdRange : UuidString(n) = u
    ELSE IF \E t \in TypeAtoms : TypeString(t) = u
         THEN CHOOSE t \in TypeAtoms : TypeString(t) = u
         ELSE u

JString(s) == <<"string", Escape(s)>>

\* the keys of an entry in the order lines 186-199 insert them
KeyOrder ==
    <<"id", "type", "standard_name", "variants", "city", "province_state",
      "country", "publisher">>

\* json.dump of the value of one key of an entry
ToJSONField(k, v) ==
    CASE k = "id" -> JString(UuidString(v))
      [] k = "type" -> JString(TypeString(v))
      [] k = "variants" -> <<"array", [i \in DOMAIN v |-> JString(v[i])]>>
      [] OTHER -> JString(v)

\* json.dump of one entry: its keys in insertion order
ToJSONObject(e) ==
    LET Has(k) == k \in DOMAIN e
        keys   == SelectSeq(KeyOrder, Has)
    IN <<"object",
         [i \in DOMAIN keys |-> <<keys[i], ToJSONField(keys[i], e[keys[i]])>>]>>

\* json.dump(entities, f, ensure_ascii=False, indent=4)
ToJSON(entities) ==
    <<"array", [i \in DOMAIN entities |-> ToJSONObject(entities[i])]>>

\* json.load: strings unescaped, arrays to lists, objects to dicts (of a
\* key written twice the last value is kept)
RECURSIVE FromJSON(_)
FromJSON(v) ==
    CASE v[1] = "string" -> FromString(Unescape(v[2]))
      [] v[1] = "array" -> [i \in DOMAIN v[2] |-> FromJSON(v[2][i])]
      [] v[1] = "object" ->
           LET pairs == v[2]
               Last(k) == CHOOSE i \in DOMAIN pairs :
                            /\ pairs[i][1] = k
                            /\ \A j \in DOMAIN pairs :
                                  pairs[j][1] = k => j <= i
           IN [k \in {pairs[i][1] : i \in DOMAIN pairs} |->
                  FromJSON(pairs[Last(k)][2])]

\* load_entities, lines 68-79.  A file that is not valid UTF-8 makes
\* f.read() inside json.load raise UnicodeDecodeError, which the except
\* clause of line 77 (json.JSONDecodeError) does not catch.
load_entities(f) ==
    CASE f.kind = "absent" -> <<"return", << >>>>
      [] f.kind = "not_utf8" -> <<"raise", "UnicodeDecodeError">>
      [] f.kind = "not_json" -> <<"return", << >>>>
      [] f.kind = "json" ->
           IF f.doc[1] # "array" THEN <<"return", << >>>>
           ELSE <<"return", FromJSON(f.doc)>>

\* save_entities, lines 81-84: the file after the call
save_entities(entities) ==
    [kind |-> "json", doc |-> ToJSON(entities), by |-> "save"]

\* what the file may hold before the first run: nothing, bytes that are
\* not UTF-8, text that is not JSON, a JSON object, a registry of one entry
StoredList == <<NewEntry(1, "affiliation", Al, << >>, EmptyDict)>>

InitialFiles ==
    {NoFile,
     [kind |-> "not_utf8", doc |-> << >>, by |-> "other"],
     [kind |-> "not_json", doc |-> << >>, by |-> "other"],
     [kind |-> "json", doc |-> <<"object", << >>>>, by |-> "other"],
     [kind |-> "json", doc |-> ToJSON(StoredList), by |-> "other"]}

PersistQueries == {<<Al, "affiliation">>, <<Ali, "journal">>}
PersistHandlerAnswers == {Empty, BackslashName}

PersistInit ==
    /\ all_entities = << >>
    /\ CONFIRM_MATCHES = FALSE
    /\ prompt_handler = "None"
    /\ NoCall
    /\ file \in InitialFiles
    /\ loaded = <<"none">>
    /\ phase = "start"
    /\ AuxOff

\* run_pipeline, line 369: the call of load_entities
LoadEntities ==
    /\ phase = "start"
    /\ loaded' = load_entities(file)
    /\ phase' = IF loaded'[1] = "raise" THEN "crashed" ELSE "loaded"
    /\ UNCHANGED <<all_entities, CONFIRM_MATCHES, prompt_handler, pc, name,
                   entity_type, pre, best, ret, asked, confirm, prompted,
                   answer, file>>
    /\ UNCHANGED auxVars

\* run_pipeline, line 369: the assignment of the loaded list
StartRun ==
    /\ phase = "loaded"
    /\ all_entities' = loaded[2]
    /\ WithinBounds(all_entities')
    /\ loaded' = <<"none">>
    /\ phase' = "run"
    /\ UNCHANGED <<CONFIRM_MATCHES, prompt_handler, pc, name, entity_type,
                   pre, best, ret, asked, confirm, prompted, answer, file>>
    /\ UNCHANGED auxVars

\* run_pipeline, line 456: the registry is written and the run ends
SaveEntities ==
    /\ phase = "run"
    /\ pc = "idle"
    /\ file' = save_entities(all_entities)
    /\ phase' = "start"
    /\ UNCHANGED <<all_entities, CONFIRM_MATCHES, prompt_handler, pc, name,
                   entity_type, pre, best, ret, asked, confirm, prompted,
                   answer, loaded>>
    /\ UNCHANGED auxVars

PersistNext ==
    \/ LoadEntities
    \/ StartRun
    \/ SaveEntities
    \/ phase = "run" /\ \E h \in {"None", "handler"} : SetPromptHandler(h)
    \/ phase = "run" /\ \E c \in BOOLEAN : SetConfirm(c)
    \/ phase = "run" /\ \E qt \in PersistQueries : ResolveName(qt[1], qt[2])
    \/ \E line \in ConfirmLines : ConfirmAnswer(line)
    \/ \E line \in ConsoleLines, lines \in OptionalLines :
           PromptConsole(line, lines)
    \/ \E a \in PersistHandlerAnswers, i \in HandlerInfos,
          lines \in OptionalLines :
           PromptHandler(a, i, lines)
    \/ Return

PersistSpec == PersistInit /\ [][PersistNext]_vars

(* C19.  load_entities returns the empty list, without raising, whenever   *)
(* the registry file is absent, cannot be parsed or does not hold a list,  *)
(* and the stored list in every other case.  (The code does not keep       *)
(* this: only json.JSONDecodeError is caught at line 77.)                  *)
C19_LoadNeverRaises ==
    phase \in {"loaded", "crashed"} =>
       /\ loaded[1] = "return"
       /\ phase = "loaded"
       /\ loaded[2] = IF file.kind = "json" /\ file.doc[1] = "array"
                      THEN FromJSON(file.doc)
                      ELSE << >>

-----------------------------------------------------------------------------
(* C26.  Each resolve_name call changes the registry in at most one way:   *)
(* it appends the query to the variants of exactly one entity, or appends  *)
(* exactly one entity, or changes nothing.  No entity and no variant is    *)
(* removed, and the id, type and standard_name of the entities that were   *)
(* there stay as they were.  While the call waits for an answer the        *)
(* registry is as it was when the call started.                            *)
C26_OneChange ==
    /\ pc \in {"confirm", "prompt"} => all_entities = pre
    /\ pc = "returned" =>
          \/ all_entities = pre
          \/ \E i \in DOMAIN pre :
                /\ OnlyChanged(i)
                /\ all_entities[i] =
                      [pre[i] EXCEPT !.variants = Append(@, name)]
          \/ /\ Len(all_entities) = Len(pre) + 1
             /\ \A j \in DOMAIN pre : Untouched(j)

\* a call attached its query to an entity that already had a variant
C26_Witness ==
    /\ pc = "returned"
    /\ \E i \in DOMAIN pre :
          /\ pre[i].variants # << >>
          /\ all_entities[i].variants = Append(pre[i].variants, name)
          /\ OnlyChanged(i)

-----------------------------------------------------------------------------
(* One session in non-confirm mode: the calls standardize_entry makes on   *)
(* the one registry list, with the first non-empty result of each          *)
(* (name, type) kept aside.                                                *)

SessionInit ==
    /\ all_entities = << >>
    /\ CONFIRM_MATCHES = FALSE
    /\ prompt_handler \in {"None", "handler"}
    /\ NoCall
    /\ file = NoFile
    /\ loaded = <<"none">>
    /\ phase = "run"
    /\ run = NoRun
    /\ session = << >>
    /\ entry = NoEntryAtHand
    /\ std_dict = NoDict
    /\ op = NoOp

\* standardize_entry, lines 344-346, 353-355, 361-362: the caller takes
\* the result; the locals of the call are gone
TakeResult ==
    LET key == <<name, entity_type>>
    IN /\ pc = "returned"
       /\ session' =
             IF ret[2] # Empty /\ key \notin DOMAIN session
             THEN [k \in DOMAIN session \cup {key} |->
                      IF k = key THEN ret[2] ELSE session[k]]
             ELSE session
       /\ ForgetCall
       /\ UNCHANGED <<all_entities, CONFIRM_MATCHES, prompt_handler>>
       /\ UNCHANGED diskVars
       /\ UNCHANGED <<run, entry, std_dict, op>>

SessionNext ==
    \/ \E qt \in Queries : ResolveName(qt[1], qt[2])
    \/ \E line \in ConsoleLines, lines \in OptionalLines :
           PromptConsole(line, lines)
    \/ \E a \in HandlerAnswers, i \in HandlerInfos, lines \in OptionalLines :
           PromptHandler(a, i, lines)
    \/ TakeResult

SessionSpec == SessionInit /\ [][SessionNext]_vars

\* the call at hand is for a name of the session that has a result
ResolvedBefore == pc # "idle" /\ <<name, entity_type>> \in DOMAIN session

(* C28.  In non-confirm mode, once a name of a type has been resolved with *)
(* a non-empty result (auto-accepted, typed or passed through), every      *)
(* later resolution of the same name and type in the session returns the   *)
(* same canonical name without entering the prompt; nothing is saved in    *)
(* between.                                                                *)
C28_SameNameSameResult ==
    ResolvedBefore =>
       /\ ~prompted
       /\ pc = "returned"
       /\ ret = Returned(session[<<name, entity_type>>])
       /\ file = NoFile

\* a name first resolved by a typed answer to another standard name is
\* resolved again, after the registry has grown
C28_Witness ==
    /\ ResolvedBefore
    /\ pc = "returned"
    /\ ret = Returned(session[<<name, entity_type>>])
    /\ ret[2] # name
    /\ Len(all_entities) = MaxEntities

-----------------------------------------------------------------------------
(* prompt_user as a function of the registry and of what the human gives:  *)
(* the answer to the question for the name and the answers to the          *)
(* optional questions.  `console` holds the questions put with input().    *)

\* prompt_user without a handler, lines 152-235
console_prompt(entities, q, t, line, lines) ==
    LET raw_input  == Strip(line)
        user_input == IF raw_input # Empty THEN clean_text(raw_input) ELSE Empty
        info       == IF user_input # Empty
                      THEN ConsoleInfo(EmptyDict, t, lines)
                      ELSE EmptyDict
        out        == PromptOutcome(entities, q, t, user_input, info, lines)
    IN IF IsEmptyMarker(raw_input)
       THEN [entities |-> entities, ret |-> Empty, console |-> {"name"}]
       ELSE [entities |-> out.entities, ret |-> out.ret,
             console |-> {"name"} \cup AskedFields(t)]

\* prompt_user with a handler that passes on what the human gave, lines
\* 149-150 and 173-235
handler_prompt(entities, q, t, line, lines) ==
    LET user_input      == line
        additional_info == [k \in AskedFields(t) |-> lines[k]]
        out == PromptOutcome(entities, q, t, user_input, additional_info,
                             lines)
    IN [entities |-> out.entities, ret |-> out.ret,
        console |-> IF user_input # Empty THEN {} ELSE AskedFields(t)]

(* C23.  The resolution does not depend on the prompt backend: for the     *)
(* same query, registry and human answers (a typed name, the               *)
(* keep-as-empty marker, or no input) a call with a handler installed      *)
(* returns the same name and leaves the same registry as a call with the   *)
(* console prompt, and puts no question to the human outside the handler.  *)
(* (The code does not keep this: lines 149-150 take the handler's answer   *)
(* without the marker test of line 157 and without clean_text, and lines   *)
(* 129 and 210-216 call input() whatever the handler.)                     *)
C23_BackendIndependent ==
    /\ pc = "confirm" => prompt_handler = "None"
    /\ pc = "prompt" =>
          \A line \in ConsoleLines, lines \in OptionalLines :
             LET c == console_prompt(all_entities, name, entity_type,
                                     line, lines)
                 h == handler_prompt(all_entities, name, entity_type,
                                     line, lines)
             IN /\ h.ret = c.ret
                /\ h.entities = c.entities
                /\ h.console = {}

-----------------------------------------------------------------------------
(* pipeline_gui.py: run() installs gui_prompt_handler and calls            *)
(* run_pipeline inside try / except Exception (lines 19-24).               *)

\* what simpledialog.askstring returns (line 8): None when the dialog is
\* cancelled, the text of the entry field when OK is pressed
GuiResults == {<<"None">>, <<"str", Empty>>, <<"str", Al>>, <<"str", AliCap>>}

\* user_input, additional_info = _prompt_handler(entity_type, name), line
\* 150 of nukescan_pipeline.py: None cannot be unpacked, a string of two
\* characters unpacks into its characters, any other string has too few
\* or too many values
Unpack(v) ==
    CASE v[1] = "None" -> <<"raise", "TypeError">>
      [] v[1] = "str" /\ Len(v[2]) # 2 -> <<"raise", "ValueError">>
      [] OTHER -> <<"pair", <<v[2][1]>>, <<v[2][2]>>>>

\* the call of prompt_user ends with an exception, which leaves
\* resolve_name, standardize_entry and run_pipeline and is caught at line
\* 23 of pipeline_gui.py
Raise(exception) ==
    /\ pc' = "raised"
    /\ phase' = "crashed"
    /\ run' = [run EXCEPT !.error = exception]
    /\ UNCHANGED <<all_entities, ret>>

\* prompt_user with gui_prompt_handler installed, lines 149-150 and
\* 173-202.  After a two-character answer user_input is one character
\* (never empty) and additional_info is a str, which has no get().
PromptGui(result) ==
    LET u == Unpack(result)
        existing_entry == ExistingEntry(all_entities, entity_type, u[2])
    IN /\ pc = "prompt"
       /\ prompt_handler = "gui"
       /\ answer' = [kind |-> IF result[1] = "None" THEN "cancel" ELSE "typed",
                     raw |-> IF result[1] = "None" THEN Empty ELSE result[2],
                     value |-> IF u[1] = "pair" THEN u[2] ELSE Empty]
       /\ IF u[1] = "raise" THEN Raise(u[2])
          ELSE IF existing_entry # 0
          THEN /\ all_entities' =
                     AttachVariant(all_entities, existing_entry, name)
               /\ WithinBounds(all_entities')
               /\ ret' = Returned(u[2])
               /\ pc' = "returned"
               /\ UNCHANGED <<phase, run>>
          ELSE IF entity_type \in {"affiliation", "journal"}
          THEN Raise("AttributeError")
          ELSE /\ all_entities' =
                     Append(all_entities,
                            NewEntry(FreshId(all_entities), entity_type, u[2],
                                     IF name # u[2] THEN <<name>> ELSE << >>,
                                     EmptyDict))
               /\ WithinBounds(all_entities')
               /\ ret' = Returned(u[2])
               /\ pc' = "returned"
               /\ UNCHANGED <<phase, run>>
       /\ UNCHANGED <<CONFIRM_MATCHES, prompt_handler, name, entity_type, pre,
                      best, asked, confirm, prompted>>
       /\ UNCHANGED <<file, loaded, session, entry, std_dict, op>>

\* run(), lines 20-21: the handler is installed, run_pipeline has loaded
\* the empty registry of a first run
GuiInit ==
    /\ all_entities = << >>
    /\ CONFIRM_MATCHES = FALSE
    /\ prompt_handler = "gui"
    /\ NoCall
    /\ file = NoFile
    /\ loaded = <<"none">>
    /\ phase = "run"
    /\ AuxOff

GuiNext ==
    \/ \E c \in BOOLEAN : SetConfirm(c)
    \/ \E qt \in Queries : ResolveName(qt[1], qt[2])
    \/ \E line \in ConfirmLines : ConfirmAnswer(line)
    \/ \E result \in GuiResults : PromptGui(result)
    \/ Return

GuiSpec == GuiInit /\ [][GuiNext]_vars

(* C24.  The handler the repository installs answers a call                *)
(* (entity_type, raw_name) with a pair (answer, extra attributes), so      *)
(* that with the GUI handler installed a name that needs the full prompt   *)
(* is resolved to a canonical name and the run does not end in an error,   *)
(* whether the human types a name or cancels the dialog.  (The code does   *)
(* not keep this: askstring returns a str or None, never a pair.)          *)
C24_GuiHandlerResolves ==
    /\ phase # "crashed"
    /\ (pc = "returned" /\ prompted) =>
          ret = Returned(IF answer.kind = "typed" /\ answer.raw # Empty
                         THEN answer.raw ELSE name)

-----------------------------------------------------------------------------
(* run_pipeline, lines 366-458, from its call to its end: the registry is  *)
(* loaded, the confirm mode and the input mode are asked, the records are  *)
(* standardized one after the other, the output and the registry are       *)
(* written.  save_entities is followed through its file operations.        *)

\* what the registry file may hold before the run
RunFiles == {NoFile, [kind |-> "json", doc |-> ToJSON(StoredList),
                      by |-> "other"]}

RunQueries == {<<Al, "affiliation">>, <<Ali, "journal">>}

\* the answers to the mode question of line 377, and what reading the CSV
\* file of mode 1 gives (lines 386-401)
Modes == {"1", "2", "3"}
UrlFiles == {"urls", "no_urls", "not_found", "unreadable"}

\* lines 381-401 as they would be if only an invalid mode returned early
ReturnsEarlyOnInvalidMode(mode, urls) == mode \notin {"1", "2"}

\* lines 381, 392-401, 434, 449-451: the run returns before any record
ReturnsEarly(mode, urls) ==
    \/ mode \notin {"1", "2"}
    \/ mode = "1" /\ urls # "urls"

RunInit ==
    /\ all_entities = << >>
    /\ CONFIRM_MATCHES = FALSE
    /\ prompt_handler = "None"
    /\ NoCall
    /\ file \in RunFiles
    /\ loaded = <<"none">>
    /\ phase = "start"
    /\ AuxOff

\* lines 372-401, 434, 449-451: the confirm mode and the input mode are
\* answered and, in mode 1, the CSV file is read
ChooseMode(c, mode, urls) ==
    /\ phase = "run"
    /\ run.mode = "none"
    /\ CONFIRM_MATCHES' = c
    /\ run' = [run EXCEPT !.mode = mode,
                          !.urls = IF mode = "1" THEN urls ELSE "none",
                          !.file0 = file]
    /\ phase' = IF ReturnsEarly(mode, urls) THEN "early" ELSE "run"
    /\ UNCHANGED <<all_entities, prompt_handler, pc, name, entity_type, pre,
                   best, ret, asked, confirm, prompted, answer, file, loaded>>
    /\ UNCHANGED <<session, entry, std_dict, op>>

\* the records are being standardized
InBatch == phase = "run" /\ run.mode \in {"1", "2"}

\* resolve_name, lines 91, 101, 112, as it would be if a failure of
\* model.encode were answered with the name as given
EncodeFailsFallback(q, t) ==
    /\ pc = "idle"
    /\ pc' = "returned"
    /\ name' = q
    /\ entity_type' = t
    /\ pre' = all_entities
    /\ ret' = Returned(q)
    /\ run' = [run EXCEPT !.error = "EncodeError"]
    /\ UNCHANGED <<all_entities, CONFIRM_MATCHES, prompt_handler, best,
                   asked, confirm, prompted, answer>>
    /\ UNCHANGED diskVars
    /\ UNCHANGED <<session, entry, std_dict, op>>

\* resolve_name, lines 91, 101, 112: model.encode raises.  Nothing
\* catches the exception in resolve_name, standardize_entry (lines
\* 335-364) or run_pipeline (lines 403-447).
EncodeFails(q, t) ==
    /\ pc = "idle"
    /\ name' = q
    /\ entity_type' = t
    /\ pre' = all_entities
    /\ Raise("EncodeError")
    /\ UNCHANGED <<CONFIRM_MATCHES, prompt_handler, best, asked, confirm,
                   prompted, answer>>
    /\ UNCHANGED <<file, loaded>>
    /\ UNCHANGED <<session, entry, std_dict, op>>

\* lines 430-431, 441-442: standardize_entry has returned, the record is
\* appended to processed_data
RecordDone ==
    /\ InBatch
    /\ pc = "idle"
    /\ run.records < MaxRecords
    /\ run' = [run EXCEPT !.records = @ + 1]
    /\ UNCHANGED <<all_entities, CONFIRM_MATCHES, prompt_handler, pc, name,
                   entity_type, pre, best, ret, asked, confirm, prompted,
                   answer>>
    /\ UNCHANGED diskVars
    /\ UNCHANGED <<session, entry, std_dict, op>>

\* lines 453-454: the loop is over (in mode 2 after one record at least),
\* processed_data is written to output_json
WriteOutput ==
    /\ InBatch
    /\ pc = "idle"
    /\ run.mode = "2" => run.records >= 1
    /\ phase' = "written"
    /\ UNCHANGED <<all_entities, CONFIRM_MATCHES, prompt_handler, pc, name,
                   entity_type, pre, best, ret, asked, confirm, prompted,
                   answer, file, loaded>>
    /\ UNCHANGED auxVars

\* save_entities, line 82: open(file_path, 'w') creates the file or cuts
\* it to length zero
SaveOpen ==
    /\ phase = "written"
    /\ file' = [kind |-> "not_json", doc |-> << >>, by |-> "open"]
    /\ run' = [run EXCEPT !.saves = @ + 1]
    /\ phase' = "saving"
    /\ UNCHANGED <<all_entities, CONFIRM_MATCHES, prompt_handler, pc, name,
                   entity_type, pre, best, ret, asked, confirm, prompted,
                   answer, loaded>>
    /\ UNCHANGED <<session, entry, std_dict, op>>

\* save_entities, line 83: json.dump writes the document piece by piece;
\* the beginning of it is in the file
SaveDumpSome ==
    /\ phase = "saving"
    /\ file.by = "open"
    /\ file' = [kind |-> "not_json", doc |-> << >>, by |-> "dump"]
    /\ UNCHANGED <<all_entities, CONFIRM_MATCHES, prompt_handler, pc, name,
                   entity_type, pre, best, ret, asked, confirm, prompted,
                   answer, loaded, phase>>
    /\ UNCHANGED auxVars

\* save_entities, lines 83-84: the rest is written and the file is closed
SaveClose ==
    /\ phase = "saving"
    /\ file' = save_entities(all_entities)
    /\ phase' = "saved"
    /\ UNCHANGED <<all_entities, CONFIRM_MATCHES, prompt_handler, pc, name,
                   entity_type, pre, best, ret, asked, confirm, prompted,
                   answer, loaded>>
    /\ UNCHANGED auxVars

\* the process is stopped inside save_entities (KeyboardInterrupt, kill,
\* OSError of a full disk)
Interrupt ==
    /\ phase = "saving"
    /\ phase' = "crashed"
    /\ run' = [run EXCEPT !.error = "Interrupted"]
    /\ UNCHANGED <<all_entities, CONFIRM_MATCHES, prompt_handler, pc, name,
                   entity_type, pre, best, ret, asked, confirm, prompted,
                   answer, file, loaded>>
    /\ UNCHANGED <<session, entry, std_dict, op>>

\* line 458: "All done!"
ReportSuccess ==
    /\ phase = "saved"
    /\ phase' = "done"
    /\ run' = [run EXCEPT !.reported = TRUE]
    /\ UNCHANGED <<all_entities, CONFIRM_MATCHES, prompt_handler, pc, name,
                   entity_type, pre, best, ret, asked, confirm, prompted,
                   answer, file, loaded>>
    /\ UNCHANGED <<session, entry, std_dict, op>>

RunNext ==
    \/ LoadEntities
    \/ StartRun
    \/ \E c \in BOOLEAN, mode \in Modes, urls \in UrlFiles :
           ChooseMode(c, mode, urls)
    \/ InBatch /\ \E qt \in RunQueries : ResolveName(qt[1], qt[2])
    \/ InBatch /\ \E qt \in RunQueries : EncodeFails(qt[1], qt[2])
    \/ \E line \in ConfirmLines : ConfirmAnswer(line)
    \/ \E line \in ConsoleLines, lines \in OptionalLines :
           PromptConsole(line, lines)
    \/ Return
    \/ RecordDone
    \/ WriteOutput
    \/ SaveOpen
    \/ SaveDumpSome
    \/ SaveClose
    \/ Interrupt
    \/ ReportSuccess

RunSpec == RunInit /\ [][RunNext]_vars

(* C21.  save_entities is atomic for an observer of the registry file:    *)
(* at every point during and after a save, also when the save is           *)
(* interrupted, the file holds either the complete previous registry or    *)
(* the complete new one, never an empty or partial one.  (The code does    *)
(* not keep this: line 82 truncates the file before line 83 writes.)       *)
C21_SaveAtomic ==
    run.mode # "none" =>
       \/ file = run.file0
       \/ file = save_entities(all_entities)

\* model.encode has failed in this run
EncodeFailed == run.error = "EncodeError"

(* C22.  When the embedding computation fails in a resolve_name call of a  *)
(* batch, the failure ends run_pipeline as an error: the call returns no   *)
(* name, nothing is added to the registry, and from then on no step is     *)
(* taken: no further name or record is resolved, nothing is written or     *)
(* saved and no success is reported.                                       *)
C22_EncodeFailureFatal ==
    [][/\ ~EncodeFailed
       /\ EncodeFailed' =>
             /\ phase' = "crashed"
             /\ pc' = "raised"
             /\ ret' = NoRet
             /\ ~run'.reported
             /\ run'.records = run.records
             /\ run'.saves = 0
             /\ all_entities' = all_entities
             /\ file' = file]_vars

\* the embedding failed for a name of the second record, after the first
\* record had added an entity to the registry
C22_Witness ==
    /\ EncodeFailed
    /\ phase = "crashed"
    /\ run.records >= 1
    /\ Len(all_entities) > 0
    /\ run.file0 = NoFile
    /\ file = NoFile

(* C27.  A run that terminates normally writes the registry with           *)
(* save_entities exactly once, after the last record has been resolved,    *)
(* and the file then holds the registry with every entity and variant      *)
(* added during the session; a run that returns early (invalid mode, CSV   *)
(* file missing, unreadable or without URLs) does not call save_entities   *)
(* and leaves the file as it was.                                          *)
C27_SavedOnceAtEnd ==
    /\ run.saves <= 1
    /\ phase \in {"run", "written", "early"} => run.saves = 0
    /\ phase \in {"saved", "done"} =>
          /\ run.saves = 1
          /\ pc = "idle"
          /\ file = save_entities(all_entities)
          /\ load_entities(file) = <<"return", all_entities>>
    /\ (run.mode = "3" \/ run.urls \notin {"none", "urls"}) =>
          /\ phase = "early"
          /\ run.saves = 0
          /\ file = run.file0
          /\ ~run.reported

\* a run of two records that added an entity and a variant has ended
C27_Witness ==
    /\ phase = "done"
    /\ run.records = 2
    /\ run.saves = 1
    /\ file # run.file0
    /\ \E i \in DOMAIN all_entities : all_entities[i].variants # << >>

-----------------------------------------------------------------------------
(* standardize_entry, lines 335-364, over a whole entry: the loop over the *)
(* authors, the loop over the affiliations, the journal.  `entry` keeps    *)
(* the lists given, the position in them, the lists built so far and, for  *)
(* reading the outcome, what each position was resolved to.                *)

\* the entries run_pipeline hands over (lines 407-427, 438): names after
\* clean_text, which may be empty
Entries ==
    {[authors |-> <<Ali, Aly>>, affiliations |-> <<Al, Ali>>,
      journal |-> Empty],
     [authors |-> <<Ali>>, affiliations |-> <<Empty, Al>>, journal |-> Al]}

StageType(stage) ==
    CASE stage = "authors" -> "author"
      [] stage = "affiliations" -> "affiliation"
      [] OTHER -> "journal"

\* the names of the list the loop is in
StageList(e) ==
    CASE e.stage = "authors" -> e.authors
      [] e.stage = "affiliations" -> e.affiliations
      [] OTHER -> <<e.journal>>

ListInit ==
    /\ all_entities = << >>
    /\ CONFIRM_MATCHES = FALSE
    /\ prompt_handler = "None"
    /\ NoCall
    /\ file = NoFile
    /\ loaded = <<"none">>
    /\ phase = "run"
    /\ run = NoRun
    /\ session = NoSession
    /\ entry = NoEntryAtHand
    /\ std_dict = NoDict
    /\ op = NoOp

\* lines 335-341: standardize_entry is called with an entry
BeginEntry(e) ==
    /\ pc = "idle"
    /\ entry.stage \in {"none", "done"}
    /\ entry' = [stage |-> "authors", i |-> 1,
                 authors |-> e.authors, affiliations |-> e.affiliations,
                 journal |-> e.journal,
                 standardized_authors |-> << >>,
                 standardized_affiliations |-> << >>,
                 standardized_journal |-> e.journal,
                 resolved_authors |-> << >>,
                 resolved_affiliations |-> << >>]
    /\ UNCHANGED <<all_entities, CONFIRM_MATCHES, prompt_handler, pc, name,
                   entity_type, pre, best, ret, asked, confirm, prompted,
                   answer>>
    /\ UNCHANGED diskVars
    /\ UNCHANGED <<run, session, std_dict, op>>

\* lines 342-344, 351-353, 359-361: the next name of the list at hand
StandardizeNext ==
    /\ entry.stage \in {"authors", "affiliations", "journal"}
    /\ entry.i <= Len(StageList(entry))
    /\ StandardizeName(StageList(entry)[entry.i], StageType(entry.stage))

\* lines 345-346, 354-355: if resolved: list.append(resolved)
AppendIfResolved(list, resolved) ==
    IF resolved # Empty THEN Append(list, resolved) ELSE list

\* lines 343-346, 352-355, 360-362: the name was skipped or resolve_name
\* has returned; the result goes to the list (or to entry["journal"]) and
\* the loop goes on
TakeName ==
    LET resolved == IF pc = "returned" THEN ret[2] ELSE Empty
    IN /\ pc \in {"returned", "skipped"}
       /\ entry.stage \in {"authors", "affiliations", "journal"}
       /\ entry' =
            CASE entry.stage = "authors" ->
                   [entry EXCEPT
                      !.i = @ + 1,
                      !.resolved_authors = Append(@, resolved),
                      !.standardized_authors =
                          IF pc = "returned"
                          THEN AppendIfResolved(@, resolved) ELSE @]
              [] entry.stage = "affiliations" ->
                   [entry EXCEPT
                      !.i = @ + 1,
                      !.resolved_affiliations = Append(@, resolved),
                      !.standardized_affiliations =
                          IF pc = "returned"
                          THEN AppendIfResolved(@, resolved) ELSE @]
              [] OTHER ->
                   [entry EXCEPT
                      !.stage = "done",
                      !.standardized_journal =
                          IF pc = "returned" THEN resolved ELSE @]
       /\ ForgetCall
       /\ UNCHANGED <<all_entities, CONFIRM_MATCHES, prompt_handler>>
       /\ UNCHANGED diskVars
       /\ UNCHANGED <<run, session, std_dict, op>>

\* lines 347 and 356: the list is complete, the next loop begins
NextList ==
    /\ pc = "idle"
    /\ entry.stage \in {"authors", "affiliations"}
    /\ entry.i > Len(StageList(entry))
    /\ entry' = [entry EXCEPT
                    !.stage = IF @ = "authors" THEN "affiliations"
                              ELSE "journal",
                    !.i = 1]
    /\ UNCHANGED <<all_entities, CONFIRM_MATCHES, prompt_handler, pc, name,
                   entity_type, pre, best, ret, asked, confirm, prompted,
                   answer>>
    /\ UNCHANGED diskVars
    /\ UNCHANGED <<run, session, std_dict, op>>

ListNext ==
    \/ \E e \in Entries : BeginEntry(e)
    \/ StandardizeNext
    \/ \E line \in ConsoleLines, lines \in OptionalLines :
           PromptConsole(line, lines)
    \/ TakeName
    \/ NextList

ListSpec == ListInit /\ [][ListNext]_vars

\* Neo4jGraph._import_single_paper, lines 122-153 of neo4j_integration.py:
\* the (author, affiliation) pairs it links, by position
AffiliatedWith(authors, affiliations) ==
    {<<authors[idx], affiliations[idx]>> :
        idx \in {k \in DOMAIN authors :
                    /\ authors[k] # Empty
                    /\ k <= Len(affiliations)
                    /\ affiliations[k] # Empty}}

(* C29.  standardize_entry returns a record of the same shape as its       *)
(* input: the authors and affiliations lists keep their length and order,  *)
(* each name replaced by what it was resolved to (an explicitly declined   *)
(* affiliation becoming an empty string), so that the graph import links   *)
(* each author to the affiliation given at the same position.  (The code   *)
(* does not keep this: lines 343-346 and 352-355 drop empty names and      *)
(* empty results from the lists.)                                          *)
C29_SameShape ==
    entry.stage = "done" =>
       /\ Len(entry.standardized_authors) = Len(entry.authors)
       /\ Len(entry.standardized_affiliations) = Len(entry.affiliations)
       /\ entry.standardized_authors = entry.resolved_authors
       /\ entry.standardized_affiliations = entry.resolved_affiliations
       /\ AffiliatedWith(entry.standardized_authors,
                         entry.standardized_affiliations)
             = AffiliatedWith(entry.resolved_authors,
                              entry.resolved_affiliations)

-----------------------------------------------------------------------------
(* entity_resolution_system.py: one standardized dictionary of             *)
(* EntityResolver (std_authors, std_affiliations or std_journals), as      *)
(* generate_standardized_lists fills it and as EntityEditorUI edits it.    *)
(* A dict is the sequence of its entries in insertion order, each with     *)
(* its key.  The dictionary is saved after each of these and loaded by     *)
(* the next run (lines 23-25, 37-46), so that a later run starts from      *)
(* what an earlier one left.                                               *)

Max(a, b) == IF a >= b THEN a ELSE b

\* the length of a longest common subsequence
RECURSIVE LcsLen(_, _)
LcsLen(s, t) ==
    IF s = << >> \/ t = << >> THEN 0
    ELSE IF Head(s) = Head(t) THEN 1 + LcsLen(Tail(s), Tail(t))
    ELSE Max(LcsLen(Tail(s), t), LcsLen(s, Tail(t)))

\* fuzz.ratio of fuzzywuzzy: 2 * M / T in percent, rounded, with M the
\* number of matched characters and T the total length; 0 for an empty
\* string
fuzz_ratio(s, t) ==
    IF s = << >> \/ t = << >> THEN 0
    ELSE (400 * LcsLen(s, t) + (Len(s) + Len(t))) \div (2 * (Len(s) + Len(t)))

\* generate_standardized_lists(threshold=80), line 72
FuzzThreshold == 80

HasKey(dict, k) == \E i \in DOMAIN dict : dict[i].key = k
IndexOf(dict, k) == CHOOSE i \in DOMAIN dict : dict[i].key = k
Elements(s) == {s[i] : i \in DOMAIN s}

\* _process_entity_list, lines 90-115, from position i of the outer loop
RECURSIVE ProcessFrom(_, _, _, _, _)
ProcessFrom(names, i, processed, dict, threshold) ==
    IF i > Len(names) THEN dict
    ELSE
      LET entity == names[i]
      IN IF entity \in processed
         THEN ProcessFrom(names, i + 1, processed, dict, threshold)
         ELSE
           LET Similar(other) ==
                   /\ other # entity
                   /\ other \notin processed
                   /\ fuzz_ratio(Lower(entity), Lower(other)) >= threshold
               similar_entities == SelectSeq(names, Similar)
               new == [key |-> entity, standard_form |-> entity,
                       variants |-> similar_entities, confirmed |-> FALSE]
           IN ProcessFrom(names, i + 1,
                          processed \cup {entity}
                              \cup Elements(similar_entities),
                          IF HasKey(dict, entity) THEN dict
                          ELSE Append(dict, new),
                          threshold)

process_entity_list(names, dict, threshold) ==
    ProcessFrom(names, 1, {}, dict, threshold)

\* the names of the data, lines 48-70
EditorNames == {Ali, Al, Aly}

\* list(set): the distinct names of the data in any order
SeqsOf(S) ==
    {f \in [1..Cardinality(S) -> S] : \A i, j \in DOMAIN f :
                                         f[i] = f[j] => i = j}

EntityLists ==
    UNION {SeqsOf(S) : S \in {T \in SUBSET EditorNames :
                                 T # {} /\ Cardinality(T) <= MaxList}}

WithinList(dict) ==
    /\ Len(dict) <= MaxList
    /\ \A i \in DOMAIN dict : Len(dict[i].variants) <= MaxList

\* del entity_dict[merged]
Without(dict, k) ==
    LET Other(e) == e.key # k IN SelectSeq(dict, Other)

EditorInit ==
    /\ all_entities = << >>
    /\ CONFIRM_MATCHES = FALSE
    /\ prompt_handler = "None"
    /\ NoCall
    /\ file = NoFile
    /\ loaded = <<"none">>
    /\ phase = "run"
    /\ run = NoRun
    /\ session = NoSession
    /\ entry = NoEntryAtHand
    /\ std_dict = << >>
    /\ op = NoOp

resolverVars == <<all_entities, CONFIRM_MATCHES, prompt_handler, pc, name,
                  entity_type, pre, best, ret, asked, confirm, prompted,
                  answer, file, loaded, phase, run, session, entry>>

\* generate_standardized_lists, lines 72-88, for one of the three lists
GenerateStandardizedList(names) ==
    /\ std_dict' = process_entity_list(names, std_dict, FuzzThreshold)
    /\ WithinList(std_dict')
    /\ op' = [kind |-> "process", names |-> names]
    /\ UNCHANGED resolverVars

\* _edit_entities, option a, lines 235-244
EditStandardization(idx, new_std) ==
    /\ idx \in DOMAIN std_dict
    /\ std_dict' = [std_dict EXCEPT ![idx].standard_form = new_std,
                                    ![idx].confirmed = TRUE]
    /\ op' = [kind |-> "edit"]
    /\ UNCHANGED resolverVars

\* _edit_entities, option b, lines 246-273: entry `merged` is merged into
\* entry `standard`; list(set(...)) leaves the variants in any order
MergeEntities(idx1, idx2, keep) ==
    /\ idx1 \in DOMAIN std_dict
    /\ idx2 \in DOMAIN std_dict
    /\ idx1 # idx2
    /\ keep \in {"1", "2"}
    /\ LET standard == IF keep = "1" THEN idx1 ELSE idx2
           merged   == IF keep = "1" THEN idx2 ELSE idx1
           extended == std_dict[standard].variants
                          \o <<std_dict[merged].key>>
                          \o std_dict[merged].variants
       IN /\ \E variants \in SeqsOf(Elements(extended)) :
                std_dict' =
                   Without([std_dict EXCEPT ![standard].variants = variants,
                                            ![standard].confirmed = TRUE],
                           std_dict[merged].key)
          /\ WithinList(std_dict')
          /\ op' = [kind |-> "merge", standard |-> std_dict[standard],
                    merged |-> std_dict[merged],
                    entries |-> Len(std_dict)]
    /\ UNCHANGED resolverVars

EditorNext ==
    \/ \E names \in EntityLists : GenerateStandardizedList(names)
    \/ \E idx \in 1..MaxList : EditStandardization(idx, AliCap)
    \/ \E idx1, idx2 \in 1..MaxList, keep \in {"1", "2"} :
           MergeEntities(idx1, idx2, keep)

EditorSpec == EditorInit /\ [][EditorNext]_vars

\* the entry of the dictionary d under key k
EntryOf(d, k) == d[IndexOf(d, k)]

(* C25.  Merging entry A into entry B in the editor leaves a surviving     *)
(* entry B whose variants are exactly A's variants, B's variants and A's   *)
(* name, without duplicates and without B's own name, and A is no longer   *)
(* an entry of the dictionary.  (The code does not keep this: nothing      *)
(* takes B's own name out of the union.)                                   *)
C25_MergeVariants ==
    op.kind = "merge" =>
       LET A == op.merged
           B == op.standard
           after == EntryOf(std_dict, B.key)
       IN /\ ~HasKey(std_dict, A.key)
          /\ HasKey(std_dict, B.key)
          /\ Len(std_dict) = op.entries - 1
          /\ NoDuplicates(after.variants)
          /\ Elements(after.variants) =
                (Elements(A.variants) \cup Elements(B.variants)
                    \cup {A.key}) \ {B.key}
          /\ B.key \notin Elements(after.variants)

(* C30.  After _process_entity_list has run over a list of distinct names, *)
(* every name of the list is in the dictionary either as a key or as a     *)
(* variant of exactly one key, and no name is both, whether the dictionary *)
(* was empty or held the entries of an earlier run.  (The code does not    *)
(* keep this for a dictionary of an earlier run.)                          *)
C30_EveryNameOnce ==
    op.kind = "process" =>
       \A n \in Elements(op.names) :
          LET holders == {i \in DOMAIN std_dict :
                             InSeq(n, std_dict[i].variants)}
          IN \/ HasKey(std_dict, n) /\ holders = {}
             \/ ~HasKey(std_dict, n) /\ Cardinality(holders) = 1

====
